---------------------------- MODULE Spec2Model ----------------------------
(***************************************************************************)
(* Model of src/src/orbit_zoom_camera.rs: the OrbitZoomCamera controller,  *)
(* its settings, its Mode bitset and its event handler.                    *)
(*                                                                         *)
(* Scalars of the generic float type T are modelled as values of f32, the  *)
(* default of the type parameter, with the rounding of IEEE 754 binary32;  *)
(* the deltas of events and the dt of camera() are f64.  The vector and    *)
(* quaternion library (external crates) is modelled on components: a       *)
(* vector is an array of three values of T, a quaternion has four          *)
(* components, and every operation is the sequence of products and sums of *)
(* T the crate performs, each of them rounded.                             *)
(*                                                                         *)
(* The field rotation holds a quaternion in the form of the expression     *)
(* that built it (the identity, an axis_angle, a mul of two); QuatOf       *)
(* computes its four components, product by product, and does so when a    *)
(* vector is rotated.  The sine and cosine of an angle are computed as the *)
(* libm of the build computes them (sinf and cosf of glibc).  IEEE 754     *)
(* does not fix the last place of these two functions and another platform *)
(* may return a neighbouring value of T; no property below is stated about *)
(* that last place.                                                        *)
(***************************************************************************)
EXTENDS Integers, Sequences, FiniteSets, TLC

VARIABLES cam, lastEvent, nMoves, held

vars == <<cam, lastEvent, nMoves, held>>

(***************************************************************************)
(* Bounds of the model.                                                    *)
(***************************************************************************)
\* Number of motion-carrying events (scroll, relative motion) in one
\* behaviour.
MaxMoves == 2

(***************************************************************************)
(* The float type T.  T is the type parameter of OrbitZoomCamera and of    *)
(* its settings; its default, f32, is the type modelled here.  A value is  *)
(* <<s, m, e>>: sign s (0 or 1), significand m and exponent e, standing    *)
(* for (-1)^s * m * 2^e.  Normal numbers have 2^23 <= m < 2^24 and         *)
(* -149 <= e <= 104; subnormals and the two zeros have m < 2^23 and        *)
(* e = -149.  Exponent 105 marks the infinities (m = 0) and NaN (m = 1).   *)
(* Every operation rounds to nearest, ties to even, as IEEE 754 binary32   *)
(* does.  Intermediate integers stay below 2^31.                           *)
(***************************************************************************)
Abs(n) == IF n < 0 THEN -n ELSE n

\* The number of binary digits of n, 0 <= n < 2^31.
RECURSIVE BitLen(_)
BitLen(n) ==
    IF n = 0 THEN 0
    ELSE IF n >= 8388608 THEN 24 + BitLen(n \div 16777216)
    ELSE 1 + BitLen(n \div 2)

NaN      == <<0, 1, 105>>
Inf(s)   == <<s, 0, 105>>
IsNaN(a)  == a[3] = 105 /\ a[2] # 0
IsInf(a)  == a[3] = 105 /\ a[2] = 0
IsZero(a) == a[3] # 105 /\ a[2] = 0
\* a is a number: neither NaN nor infinite.
Finite(a) == a[3] # 105

\* <<s, m, e>> for a significand m <= 2^24 that rounding produced: 2^24
\* is carried into the exponent, an exponent above 104 gives an infinity.
Pack(s, m, e) ==
    IF m = 2^24 THEN (IF e + 1 > 104 THEN Inf(s) ELSE <<s, 2^23, e + 1>>)
    ELSE IF e > 104 THEN Inf(s) ELSE <<s, m, e>>

\* Round to nearest, ties to even: q is the significand kept, r the first
\* bit dropped, st whether anything lies below that bit.
RoundEven(s, q, e, r, st) ==
    Pack(s, IF r /\ (st \/ q % 2 = 1) THEN q + 1 ELSE q, e)

\* The significand M with its sh lowest bits dropped, sh <= 0 appending
\* -sh zero bits instead.
RoundAt(s, M, E, sticky, sh) ==
    IF sh <= 0 THEN (IF E + sh > 104 THEN Inf(s) ELSE <<s, M * 2^(-sh), E + sh>>)
    ELSE IF sh >= 32 THEN <<s, 0, -149>>
    ELSE RoundEven(s, (M \div 2^(sh - 1)) \div 2, E + sh, (M \div 2^(sh - 1)) % 2 = 1,
                   sticky \/ M % 2^(sh - 1) # 0)

\* sh0 is the number of bits M has beyond 24; a subnormal result keeps
\* fewer bits.
RoundFrom(s, M, E, sticky, sh0) ==
    RoundAt(s, M, E, sticky, IF E + sh0 < -149 THEN -149 - E ELSE sh0)

\* The value of T nearest to (-1)^s * (M + f) * 2^E, where 0 <= M < 2^31
\* and f is 0, or some fraction strictly between 0 and 1 when sticky holds
\* (M then has at least 26 bits).  Overflow gives an infinity, underflow a
\* subnormal or a zero.
Round(s, M, E, sticky) ==
    IF M = 0 THEN <<s, 0, -149>>
    ELSE RoundFrom(s, M, E, sticky, BitLen(M) - 24)

\* Binary digits of r/d (0 <= r < d <= 2^30) appended to acc until acc has
\* 27 bits or the division is exact: <<digits, inexact, number of digits>>.
RECURSIVE Quotient(_, _, _, _)
Quotient(acc, r, d, k) ==
    IF acc >= 2^26 \/ r = 0 \/ k >= 200 THEN <<acc, r # 0, k>>
    ELSE IF 2 * r >= d THEN Quotient(2 * acc + 1, 2 * r - d, d, k + 1)
    ELSE Quotient(2 * acc, 2 * r, d, k + 1)

\* The value of T with sign s nearest to the quotient q.
RoundQuotient(s, q) == Round(s, q[1], -q[3], q[2])

\* The value of T a decimal literal with the value n/d denotes: the
\* nearest one.
Rat(n, d) ==
    RoundQuotient(IF n # 0 /\ ((n < 0) # (d < 0)) THEN 1 ELSE 0,
                  Quotient(Abs(n) \div Abs(d), Abs(n) % Abs(d), Abs(d), 0))

FromInt(n) == Rat(n, 1)

\* T::zero() and T::one().
Zero == <<0, 0, -149>>
One  == <<0, 8388608, -23>>

\* |a| < |b| for finite or infinite a, b.
MagLt(a, b) == a[3] < b[3] \/ (a[3] = b[3] /\ a[2] < b[2])

\* big + small for |big| >= |small| > 0, where B and lost are the
\* significand of small aligned to big[2] * 64 and whether bits of it fell
\* below the alignment.
AddAligned(big, s, B, lost) ==
    IF big[1] = s THEN Round(big[1], big[2] * 64 + B, big[3] - 6, lost)
    ELSE IF big[2] * 64 = B /\ ~lost THEN <<0, 0, -149>>
    ELSE Round(big[1], big[2] * 64 - B - (IF lost THEN 1 ELSE 0), big[3] - 6, lost)

\* big + small for finite non-zero values with |big| >= |small|.
AddOrdered(big, small) ==
    IF big[3] - small[3] > 30 THEN AddAligned(big, small[1], 0, TRUE)
    ELSE AddAligned(big, small[1], (small[2] * 64) \div 2^(big[3] - small[3]),
                    (small[2] * 64) % 2^(big[3] - small[3]) # 0)

\* T + T
RAdd(a, b) ==
    IF IsNaN(a) \/ IsNaN(b) THEN NaN
    ELSE IF IsInf(a) THEN (IF IsInf(b) /\ a[1] # b[1] THEN NaN ELSE a)
    ELSE IF IsInf(b) THEN b
    ELSE IF a[2] = 0 /\ b[2] = 0
         THEN <<IF a[1] = 1 /\ b[1] = 1 THEN 1 ELSE 0, 0, -149>>
    ELSE IF a[2] = 0 THEN b
    ELSE IF b[2] = 0 THEN a
    ELSE IF MagLt(a, b) THEN AddOrdered(b, a)
    ELSE AddOrdered(a, b)

\* The value of T nearest to (-1)^s * (hh * 2^24 + cross * 2^12 + ll) * 2^e,
\* the three parts being the products of 12-bit halves of two normalised
\* significands; lraw gathers the bits below 2^24.
MulSum(s, H, lraw, e) ==
    Round(s, (H + lraw \div 2^24) * 64 + (lraw % 2^24) \div 2^18, e + 18,
          lraw % 2^18 # 0)

MulParts(s, hh, cross, ll, e) ==
    MulSum(s, hh + cross \div 4096, (cross % 4096) * 4096 + ll, e)

\* The product of the normalised significands ma and mb, 2^23 <= ma, mb.
MulNormal(s, ma, mb, e) ==
    MulParts(s, (ma \div 4096) * (mb \div 4096),
             (ma \div 4096) * (mb % 4096) + (ma % 4096) * (mb \div 4096),
             (ma % 4096) * (mb % 4096), e)

\* The product of the finite non-zero a and b, ka and kb being the bits
\* their significands lack to 24.
MulShifted(a, b, ka, kb) ==
    MulNormal((a[1] + b[1]) % 2, a[2] * 2^ka, b[2] * 2^kb,
              (a[3] - ka) + (b[3] - kb))

\* T * T.  The 48-bit product of the two normalised significands is formed
\* from 12-bit halves.
RMul(a, b) ==
    IF IsNaN(a) \/ IsNaN(b) THEN NaN
    ELSE IF IsInf(a) \/ IsInf(b)
         THEN (IF IsZero(a) \/ IsZero(b) THEN NaN ELSE Inf((a[1] + b[1]) % 2))
    ELSE IF a[2] = 0 \/ b[2] = 0 THEN <<(a[1] + b[1]) % 2, 0, -149>>
    ELSE MulShifted(a, b, 24 - BitLen(a[2]), 24 - BitLen(b[2]))

\* -T
RNeg(a) == IF IsNaN(a) THEN NaN ELSE <<1 - a[1], a[2], a[3]>>

\* The comparisons of T; every comparison with NaN is false, the two zeros
\* are equal.
REq(a, b) == ~IsNaN(a) /\ ~IsNaN(b) /\ (a = b \/ (IsZero(a) /\ IsZero(b)))
RLt(a, b) ==
    /\ ~IsNaN(a) /\ ~IsNaN(b)
    /\ ~(IsZero(a) /\ IsZero(b))
    /\ IF a[1] # b[1] THEN a[1] = 1
       ELSE IF a[1] = 0 THEN MagLt(a, b) ELSE MagLt(b, a)
RGt(a, b)  == RLt(b, a)
RLe(a, b)  == RLt(a, b) \/ REq(a, b)

\* T - T
RSub(a, b) == RAdd(a, RNeg(b))

\* An f64 value of an event: <<s, m, e>> standing for (-1)^s * m * 2^e with
\* m < 2^31; exponent 1024 marks the infinities (m = 0) and NaN (m = 1).
F64(n, e) == <<IF n < 0 THEN 1 ELSE 0, Abs(n), e>>
NaN64     == <<0, 1, 1024>>

(***************************************************************************)
(* Mode: bitflags over u8.  A value is the set of its flags; contains is   *)
(* (bits & x) == x, insert is |, remove is & !x.                           *)
(***************************************************************************)
ORBIT_BUTTON == "ORBIT_BUTTON"
ZOOM_BUTTON  == "ZOOM_BUTTON"
PAN_BUTTON   == "PAN_BUTTON"
ORBIT_MOD    == "ORBIT_MOD"
ZOOM_MOD     == "ZOOM_MOD"
PAN_MOD      == "PAN_MOD"

ButtonFlags == {ORBIT_BUTTON, ZOOM_BUTTON, PAN_BUTTON}
ModFlags    == {ORBIT_MOD, ZOOM_MOD, PAN_MOD}

ModeEmpty == {}
Contains(m, x) == x \subseteq m
Insert(m, x)   == m \cup x
Remove(m, x)   == m \ x

(***************************************************************************)
(* Inputs: input::Button is Mouse(MouseButton) or Keyboard(Key).           *)
(* Option<Key> is <<>> for None and <<k>> for Some(k).                     *)
(***************************************************************************)
Mouse(b)    == <<"Mouse", b>>
Keyboard(k) == <<"Keyboard", k>>
None        == <<>>
Some(k)     == <<k>>
\* Option::map with the closure |a| Keyboard(a)
MapKeyboard(o) == IF o = None THEN None ELSE Some(Keyboard(o[1]))

MouseButtons == {"Left", "Right", "Middle"}
Buttons      == {Mouse(b) : b \in MouseButtons}
                    \cup {Keyboard(k) : k \in {"LShift", "LCtrl", "LAlt"}}


(***************************************************************************)
(* The sine and cosine of T (f32::sin, f32::cos).  The standard library    *)
(* hands both to the libm of the build, and they are computed here as      *)
(* sinf and cosf of glibc compute them (glibc 2.28 and later, x86-64 with  *)
(* fused multiply-add): the argument is reduced to an angle of at most     *)
(* pi/4 and a quadrant, a polynomial in the reduced angle is evaluated in  *)
(* f64 and its value is rounded to T.  The result is the value of T        *)
(* nearest to the exact sine or cosine, or a neighbour of it.              *)
(*                                                                         *)
(* A number of this computation is <<s, L, x>>, standing for               *)
(* (-1)^s * N * 4096^x, where N is the natural number whose 12-bit limbs,  *)
(* least significant first, are the sequence L.  Sums and products are     *)
(* formed exactly; an f64 operation rounds the exact result to 53 bits, to *)
(* nearest, ties to even.  No value of the computation leaves the range of *)
(* the normal numbers of f64.                                              *)
(***************************************************************************)
\* a + b + c for limb sequences of one length, c a carry of 0 or 1; the
\* carry out of the last limb is dropped.
RECURSIVE LAdd(_, _, _)
LAdd(a, b, c) ==
    IF a = <<>> THEN <<>>
    ELSE LET s == a[1] + b[1] + c
         IN  <<s % 4096>> \o LAdd(Tail(a), Tail(b), s \div 4096)

\* a - b - c for limb sequences of one length, a >= b + c.
RECURSIVE LSub(_, _, _)
LSub(a, b, c) ==
    IF a = <<>> THEN <<>>
    ELSE LET s == a[1] - b[1] - c
         IN  <<(s + 4096) % 4096>> \o LSub(Tail(a), Tail(b), IF s < 0 THEN 1 ELSE 0)

\* a >= b for limb sequences of one length, compared from limb i down.
RECURSIVE LGe(_, _, _)
LGe(a, b, i) ==
    IF i = 0 THEN TRUE
    ELSE IF a[i] # b[i] THEN a[i] > b[i]
    ELSE LGe(a, b, i - 1)

\* The sum of the products a[i] * b[k + 1 - i], the column k of a * b.
RECURSIVE ColSum(_, _, _, _)
ColSum(a, b, k, i) ==
    IF i > Len(a) THEN 0
    ELSE (IF k + 1 - i >= 1 /\ k + 1 - i <= Len(b) THEN a[i] * b[k + 1 - i] ELSE 0)
         + ColSum(a, b, k, i + 1)

RECURSIVE LMulFrom(_, _, _, _)
LMulFrom(a, b, k, c) ==
    IF k > Len(a) + Len(b) THEN <<>>
    ELSE LET s == ColSum(a, b, k, 1) + c
         IN  <<s % 4096>> \o LMulFrom(a, b, k + 1, s \div 4096)

\* a * b, of Len(a) + Len(b) limbs.
LMul(a, b) == LMulFrom(a, b, 1, 0)

\* The limbs 1..i of a \div d, for 0 < d < 2^19, r the remainder so far.
RECURSIVE LDivFrom(_, _, _, _)
LDivFrom(a, d, i, r) ==
    IF i = 0 THEN <<>>
    ELSE LET x == r * 4096 + a[i]
         IN  LDivFrom(a, d, i - 1, x % d) \o <<x \div d>>

\* n zero limbs.
Zeros(n) == [i \in 1..n |-> 0]

\* The limb j of a, 0 outside its length.
Limb(a, j) == IF j >= 1 /\ j <= Len(a) THEN a[j] ELSE 0

\* a as a sequence of n limbs: cut or filled with zero limbs at the top.
Limbs(a, n) == [j \in 1..n |-> Limb(a, j)]

\* The index of the most significant non-zero limb of a at or below i, 0 if
\* there is none, and the number of zero limbs below the least significant
\* non-zero one, from limb i on.
RECURSIVE TopLimb(_, _)
TopLimb(a, i) == IF i = 0 \/ a[i] # 0 THEN i ELSE TopLimb(a, i - 1)

RECURSIVE LowZeros(_, _)
LowZeros(a, i) == IF i > Len(a) \/ a[i] # 0 THEN i - 1 ELSE LowZeros(a, i + 1)

\* Whether one of the limbs 1..q of a is not zero.
AnyBelow(a, q) == \E i \in 1..q : Limb(a, i) # 0

\* a \div 2^k, a * 2^k and a % 2^k.
LShr(a, k) == LDivFrom(SubSeq(a, k \div 12 + 1, Len(a)), 2^(k % 12), Len(a) - k \div 12, 0)
LShl(a, k) == Zeros(k \div 12) \o LMul(a, <<2^(k % 12)>>)
LLow(a, k) == Limbs(a, k \div 12) \o <<Limb(a, k \div 12 + 1) % 2^(k % 12)>>

\* (-1)^s * N(L) * 4096^x with the zero limbs at both ends of L removed; z
\* and t are the number of zero limbs at the low end and the index of the
\* top limb.
Canon(s, L, x) ==
    LET z == LowZeros(L, 1)
        t == TopLimb(L, Len(L))
    IN  IF t = 0 THEN <<s, <<>>, 0>> ELSE <<s, SubSeq(L, z + 1, t), x + z>>

\* The exact product a * b.
XMul(a, b) == <<(a[1] + b[1]) % 2, LMul(a[2], b[2]), a[3] + b[3]>>

\* The n limbs of a from the exponent x <= a[3] on.
Aligned(a, x, n) == Limbs(Zeros(a[3] - x) \o a[2], n)

\* (-1)^sa * N(A) + (-1)^sb * N(B), times 4096^x, for A and B of n limbs.
XSum(sa, A, sb, B, x, n) ==
    IF sa = sb THEN <<sa, LAdd(A, B, 0), x>>
    ELSE IF LGe(A, B, n) THEN <<sa, LSub(A, B, 0), x>>
    ELSE <<sb, LSub(B, A, 0), x>>

XAddAt(a, b, x, n) == XSum(a[1], Aligned(a, x, n), b[1], Aligned(b, x, n), x, n)

\* The exact sum a + b, formed at the smaller of the two exponents and at
\* a width that holds both numbers and a carry.
XAdd(a, b) ==
    XAddAt(a, b, IF a[3] < b[3] THEN a[3] ELSE b[3],
           1 + Len(a[2]) + Len(b[2]) + Abs(a[3] - b[3]))

\* Rounding to nearest, ties to even, where q limbs of L and the b < 12
\* low bits of the next one are dropped: whether the part kept is
\* incremented, and the result.
RoundsUp(L, q, b) ==
    IF b = 0
    THEN L[q] >= 2048 /\ (L[q] % 2048 # 0 \/ AnyBelow(L, q - 1) \/ L[q + 1] % 2 = 1)
    ELSE (L[q + 1] \div 2^(b - 1)) % 2 = 1
         /\ (L[q + 1] % 2^(b - 1) # 0 \/ AnyBelow(L, q) \/ (L[q + 1] \div 2^b) % 2 = 1)

DropBits(s, L, x, q, b, up) ==
    Canon(s, LAdd(<<L[q + 1] - (L[q + 1] % 2^b)>> \o SubSeq(L, q + 2, Len(L)) \o <<0>>,
                  <<IF up THEN 2^b ELSE 0>> \o Zeros(Len(L) - q), 0),
          x + q)

\* The number with its sh lowest bits rounded away, as it is for sh <= 0.
RoundSh(s, L, x, sh) ==
    IF sh <= 0 THEN Canon(s, L, x)
    ELSE DropBits(s, L, x, sh \div 12, sh % 12, RoundsUp(L, sh \div 12, sh % 12))

\* The f64 value nearest to r: r rounded to 53 bits.
RoundD(r) ==
    LET t == TopLimb(r[2], Len(r[2]))
    IN  IF t = 0 THEN <<r[1], <<>>, 0>>
        ELSE RoundSh(r[1], r[2], r[3], 12 * (t - 1) + BitLen(r[2][t]) - 53)

\* The f64 operations a * b and fma(a, b, c) = a * b + c, the latter
\* rounded once.
DMul(a, b)    == RoundD(XMul(a, b))
DFma(a, b, c) == RoundD(XAdd(XMul(a, b), c))

\* The limbs of m * 2^v for m < 2^24 and v < 12.
Limbs3(m, v) ==
    LET x0 == (m % 4096) * 2^v
        x1 == (m \div 4096) * 2^v + x0 \div 4096
    IN  <<x0 % 4096, x1 % 4096, x1 \div 4096>>

\* The finite value a of T as an f64 (the conversion is exact).
FromT(a) == <<a[1], Limbs3(a[2], a[3] % 12), a[3] \div 12>>

\* -r when neg holds, r otherwise.
Signed(neg, r) == IF neg THEN <<1 - r[1], r[2], r[3]>> ELSE r

\* The value of T with sign s nearest to
\* (l0 * 4096^2 + l1 * 4096 + l2 + f) * 2^e for limbs l0 > 0, l1, l2 and a
\* fraction 0 <= f < 1 that is not zero when sticky holds.
RoundLimbs(s, l0, l1, l2, e, sticky) ==
    IF l0 < 64 THEN Round(s, (l0 * 4096 + l1) * 4096 + l2, e, sticky)
    ELSE Round(s, (l0 * 4096 + l1) * 64 + l2 \div 64, e + 6, sticky \/ l2 % 64 # 0)

\* The conversion of the f64 value r to T: the value of T nearest to r.
ToT(r) ==
    LET t == TopLimb(r[2], Len(r[2]))
    IN  IF t = 0 THEN <<r[1], 0, -149>>
        ELSE RoundLimbs(r[1], r[2][t], Limb(r[2], t - 1), Limb(r[2], t - 2),
                        12 * (r[3] + t - 3), AnyBelow(r[2], t - 3))

\* __sincosf_table[0]: hpi_inv = 2/pi * 2^24, hpi = pi/2, the coefficients
\* c0 .. c4 of the cosine polynomial and s1 .. s3 of the sine polynomial.
\* The second entry of the table differs in the signs of c0 .. c4 only.
sincosf_table ==
    [ hpi_inv |-> <<0, <<384, 3652, 1764, 2435, 2607>>, -3>>,     \* 0x1.45F306DC9C883p+23
      hpi     |-> <<0, <<2048, 721, 1092, 4021, 2337, 1>>, -5>>,  \* 0x1.921FB54442D18p0
      c0      |-> <<0, <<1>>, 0>>,                                \* 0x1p0
      c1      |-> <<1, <<1792, 392, 3907, 4095, 2047>>, -5>>,     \* -0x1.ffffffd0c621cp-2
      c2      |-> <<0, <<2248, 839, 3848, 2729, 170>>, -5>>,      \* 0x1.55553e1068f19p-5
      c3      |-> <<1, <<1024, 3431, 616, 506, 2818, 5>>, -6>>,   \* -0x1.6c087e89a359dp-10
      c4      |-> <<0, <<3120, 3064, 39, 835, 409>>, -6>>,        \* 0x1.99343027bf8c3p-16
      s1      |-> <<1, <<96, 2892, 2866, 2728, 682>>, -5>>,       \* -0x1.555545995a603p-3
      s2      |-> <<0, <<1928, 1121, 3082, 526, 34>>, -5>>,       \* 0x1.1107605230bc4p-7
      s3      |-> <<1, <<512, 1657, 3002, 1881, 3274>>, -6>> ]    \* -0x1.994eb3774cf24p-13

\* pi63 = 2 pi * 2^-64 of reduce_large.
pi63 == <<0, <<1536, 180, 1297, 2029, 1608>>, -10>>              \* 0x1.921FB54442D18p-62

\* __inv_pio4: 4/pi * 2^-2 as 24 overlapping 32-bit words, the word i
\* holding the bits 8 i - 24 .. 8 i + 7 of the fraction; each word is given
\* by its three limbs, and the word i of the source is inv_pio4[i + 1].
inv_pio4 ==
    << <<162, 0, 0>>, <<761, 10, 0>>, <<2435, 2607, 0>>,
       <<878, 3992, 162>>, <<3662, 2102, 249>>, <<3652, 1764, 131>>,
       <<1045, 1252, 110>>, <<1321, 1089, 78>>, <<2556, 338, 68>>,
       <<3111, 671, 21>>, <<1879, 4034, 41>>, <<2001, 629, 252>>,
       <<501, 1405, 39>>, <<1332, 3359, 87>>, <<1245, 3923, 209>>,
       <<3520, 845, 245>>, <<219, 3548, 52>>, <<2914, 3085, 221>>,
       <<661, 3510, 192>>, <<1433, 1577, 219>>, <<2364, 2393, 98>>,
       <<3139, 2451, 149>>, <<912, 964, 153>>, <<65, 1081, 60>> >>

\* sinf_poly, the sine polynomial: (x + x3 * s1) + (x3 * x2) * (s2 + x2 * s3)
\* for x3 = x * x2, every product followed by a sum fused with it, rounded
\* to T.
sinf_poly_sin(p, x, x2, x3) ==
    ToT(DFma(DMul(x3, x2), DFma(x2, p.s3, p.s2), DFma(x3, p.s1, x)))

\* sinf_poly, the cosine polynomial:
\* ((c0 + x2 * c1) + x4 * c2) + (x4 * x2) * (c3 + x2 * c4) for x4 = x2 * x2,
\* rounded to T; neg selects the second entry of the table, whose
\* coefficients c0 .. c4 are negated.
sinf_poly_cos(p, x2, x4, neg) ==
    ToT(DFma(DMul(x4, x2), DFma(x2, Signed(neg, p.c4), Signed(neg, p.c3)),
             DFma(x4, Signed(neg, p.c2), DFma(x2, Signed(neg, p.c1), Signed(neg, p.c0)))))

\* <<sinf, cosf>> from the two polynomials: sinf takes the sine polynomial
\* in an even quadrant n and the cosine polynomial in an odd one, cosf the
\* other.
BothPoly(n, ps, pc) == IF n % 2 = 0 THEN <<ps, pc>> ELSE <<pc, ps>>

sinf_poly(x, x2, q, n) ==
    BothPoly(n, sinf_poly_sin(sincosf_table, x, x2, DMul(x, x2)),
             sinf_poly_cos(sincosf_table, x2, DMul(x2, x2), q \in {2, 3}))

\* <<sinf, cosf>> for the reduced angle r[1], the quadrant r[2] that sets
\* the signs (sign[q & 3] is -1 for q & 3 = 1 and 2, the second table is
\* taken when q & 2 is set) and the quadrant r[3] that selects the
\* polynomial.
Reduced(r) == sinf_poly(Signed(r[2] % 4 \in {1, 2}, r[1]), DMul(r[1], r[1]), r[2] % 4, r[3])

\* The integer (int32_t) r of an f64 r with |r| < 2^30: r without its
\* fraction.
Int32(r) ==
    (IF r[1] = 1 THEN -1 ELSE 1)
    * ((Limb(r[2], 3 - r[3]) * 4096 + Limb(r[2], 2 - r[3])) * 4096 + Limb(r[2], 1 - r[3]))

\* reduce_fast: n is x * hpi_inv rounded to the nearest multiple of 2^24,
\* in units of 2^24, and the reduced angle is fma(-n, hpi, x), -n being
\* the f64 of sign 1 for n > 0 and magnitude |n| < 4096.
reduce_fast(x) ==
    LET n == (Int32(DMul(x, sincosf_table.hpi_inv)) + 8388608) \div 16777216
    IN  <<DFma(<<IF n > 0 THEN 1 ELSE 0, <<Abs(n)>>, 0>>, sincosf_table.hpi, x), n, n>>

\* reduce_large, for |a| >= 120.  R is res0, the 64 low bits of xi times 96
\* bits of 4/pi; k = n is R rounded to a multiple of 2^62, in units of
\* 2^62, and the reduced angle is the rest, a signed 64-bit integer,
\* converted to f64 and multiplied by pi63.
reduce_large_res(s, R) ==
    LET k == LShr(LAdd(R, <<0, 0, 0, 0, 0, 2>>, 0), 62)[1]
    IN  <<DMul(RoundD(XSum(0, R, 1, <<0, 0, 0, 0, 0, 4 * k>>, 0, 6)), pi63),
          (k % 4) + s, k % 4>>

reduce_large_xi(s, xi, i) ==
    reduce_large_res(s,
        Limbs(LLow(LAdd(LAdd(Limbs(LShl(LLow(LMul(xi, inv_pio4[i + 1]), 32), 32), 7),
                             Limbs(LShr(LMul(xi, inv_pio4[i + 9]), 32), 7), 0),
                        Limbs(LMul(xi, inv_pio4[i + 5]), 7), 0), 64), 6))

reduce_large(a) ==
    reduce_large_xi(a[1], Limbs3(a[2], (a[3] + 150) % 8), ((a[3] + 150) \div 8) % 16)

\* <<sinf(a), cosf(a)>> = <<T::sin, T::cos>> of a.  An angle below 2^-12 in
\* magnitude is its own sine and has the cosine 1; one below 0.75 (the
\* values of T whose 12 leading bits are below those of pi/4) needs no
\* reduction; one below 120 is reduced by reduce_fast, a greater one by
\* reduce_large.
sincos(a) ==
    IF IsNaN(a) \/ IsInf(a) THEN <<NaN, NaN>>
    ELSE IF MagLt(a, <<0, 8388608, -35>>) THEN <<a, One>>
    ELSE Reduced(IF MagLt(a, <<0, 12582912, -24>>) THEN <<FromT(a), 0, 0>>
                 ELSE IF MagLt(a, <<0, 15728640, -17>>) THEN reduce_fast(FromT(a))
                 ELSE reduce_large(a))

\* T::sin
sin(a) == sincos(a)[1]

\* T::cos
cos(a) == sincos(a)[2]

(***************************************************************************)
(* The vecmath crate: a vector is the array <<x, y, z>> of its components, *)
(* each operation the products and sums of T the crate performs.           *)
(***************************************************************************)
\* The array [f(1), f(2), f(3)].
Array3(f) == <<f[1], f[2], f[3]>>

\* Componentwise sum.
vec3_add(a, b)   == Array3([i \in 1..3 |-> RAdd(a[i], b[i])])

\* Componentwise product with s.
vec3_scale(a, s) == Array3([i \in 1..3 |-> RMul(a[i], s)])

vec3_dot(a, b) == RAdd(RAdd(RMul(a[1], b[1]), RMul(a[2], b[2])), RMul(a[3], b[3]))

\* Component i is a[j] * b[k] - a[k] * b[j] for (i, j, k) a cyclic shift of
\* (1, 2, 3).
vec3_cross(a, b) ==
    Array3([i \in 1..3 |-> RSub(RMul(a[(i % 3) + 1], b[((i + 1) % 3) + 1]),
                                RMul(a[((i + 1) % 3) + 1], b[(i % 3) + 1]))])

(***************************************************************************)
(* The quaternion crate on components: a quaternion (w, [x, y, z]) is      *)
(* <<w, x, y, z>>.                                                         *)
(***************************************************************************)
\* The quaternion with scalar part w and vector part v, and the vector
\* part of a quaternion.
Quat(w, v) == <<w, v[1], v[2], v[3]>>
VecPart(q) == <<q[2], q[3], q[4]>>

\* quaternion::mul
QuatMul(a, b) ==
    Quat(RSub(RMul(a[1], b[1]), vec3_dot(VecPart(a), VecPart(b))),
         vec3_add(vec3_add(vec3_scale(VecPart(b), a[1]), vec3_scale(VecPart(a), b[1])),
                  vec3_cross(VecPart(a), VecPart(b))))

QuatConj(q) == <<q[1], RNeg(q[2]), RNeg(q[3]), RNeg(q[4])>>

\* The quaternion about axis whose half angle has the sine and cosine sc.
QuatSinCos(axis, sc) == Quat(sc[2], vec3_scale(axis, sc[1]))

\* quaternion::axis_angle: the cosine of half the angle (angle times the
\* literal 0.5 = 2^23 * 2^-24) and the axis scaled by its sine.
QuatAxisAngle(axis, angle) == QuatSinCos(axis, sincos(RMul(angle, <<0, 8388608, -24>>)))

\* The product qs[1] * ... * qs[n] of quaternions, taken from the left.
RECURSIVE QuatProduct(_, _)
QuatProduct(qs, n) ==
    IF n = 1 THEN qs[1] ELSE QuatMul(QuatProduct(qs, n - 1), qs[n])

\* quaternion::rotate_vector: the vector part of q * (0, v) * conj(q).
QuatRotate(q, v) == VecPart(QuatProduct(<<q, Quat(Zero, v), QuatConj(q)>>, 3))

(***************************************************************************)
(* The quaternions of the controller.  The field rotation is built by      *)
(* id(), axis_angle and mul only, and a value of it is kept as that        *)
(* expression: <<"id">>, <<"axis_angle", axis, angle>> or <<"mul", a, b>>. *)
(* Two expressions are replaced by the value they compute, component for   *)
(* component: the axis_angle of the angle +0 about a unit axis and the mul *)
(* of two identities are the identity, and an axis_angle of a NaN or       *)
(* infinite angle, like every mul with it, is NaNQuat, the quaternion      *)
(* whose four components are NaN.                                          *)
(***************************************************************************)
quaternion_id == <<"id">>
NaNQuat       == <<"nan">>

IsNaNQuat(q) == q = NaNQuat

\* The arrays [_1, _0, _0], [_0, _1, _0] and [_0, _0, _1].
Unit(i) ==
    IF i = 1 THEN <<One, Zero, Zero>>
    ELSE IF i = 2 THEN <<Zero, One, Zero>>
    ELSE <<Zero, Zero, One>>

axis_angle(axis, angle) ==
    IF ~Finite(angle) THEN NaNQuat
    ELSE IF angle = Zero /\ axis \in {Unit(1), Unit(2), Unit(3)} THEN quaternion_id
    ELSE <<"axis_angle", axis, angle>>

quaternion_mul(a, b) ==
    IF IsNaNQuat(a) \/ IsNaNQuat(b) THEN NaNQuat
    ELSE IF a = quaternion_id /\ b = quaternion_id THEN quaternion_id
    ELSE <<"mul", a, b>>

(***************************************************************************)
(* OrbitZoomCameraSettings                                                 *)
(***************************************************************************)
\* T::from_f32 of the f32 literal with the decimal value n/d: the literal is
\* the nearest f32, which f32 takes as it is.
from_f32(n, d) == Rat(n, d)

\* T::from_f64 of an f64 value: the nearest f32 (`x as f32`).
from_f64(x) ==
    IF x[3] = 1024 THEN (IF x[2] = 0 THEN Inf(x[1]) ELSE NaN)
    ELSE Round(x[1], x[2], x[3], FALSE)

\* Variant: scrolling orbits by default.
Default_ScrollOrbits ==
    [ orbit_button |-> "Left",
      zoom_button  |-> "Right",
      pan_button   |-> "Left",
      orbit_mod    |-> None,
      zoom_mod     |-> None,
      pan_mod      |-> Some("LShift"),
      scroll_mode  |-> {ORBIT_BUTTON},
      orbit_speed  |-> from_f32(5, 100),
      pitch_speed  |-> from_f32(1, 10),
      pan_speed    |-> from_f32(1, 10),
      zoom_speed   |-> from_f32(1, 10) ]

Default ==
    [ orbit_button |-> "Left",
      zoom_button  |-> "Right",
      pan_button   |-> "Left",
      orbit_mod    |-> None,
      zoom_mod     |-> None,
      pan_mod      |-> Some("LShift"),
      scroll_mode  |-> {ZOOM_BUTTON},
      orbit_speed  |-> from_f32(5, 100),
      pitch_speed  |-> from_f32(1, 10),
      pan_speed    |-> from_f32(1, 10),
      zoom_speed   |-> from_f32(1, 10) ]

\* The builder methods: each returns self with one field replaced.
orbit_button(self, button) == [self EXCEPT !.orbit_button = button]
zoom_button(self, button)  == [self EXCEPT !.zoom_button = button]
pan_button(self, button)   == [self EXCEPT !.pan_button = button]
scroll_mode(self, mode)    == [self EXCEPT !.scroll_mode = mode]
orbit_speed(self, s)       == [self EXCEPT !.orbit_speed = s]
pitch_speed(self, s)       == [self EXCEPT !.pitch_speed = s]
pan_speed(self, s)         == [self EXCEPT !.pan_speed = s]
zoom_speed(self, s)        == [self EXCEPT !.zoom_speed = s]

(***************************************************************************)
(* OrbitZoomCamera                                                         *)
(***************************************************************************)
\* Variant: the pan modifier is never pre-set.
new_NoPanMod(target, settings) ==
    LET m0 == ModeEmpty
        m1 == IF settings.orbit_mod = None THEN Insert(m0, {ORBIT_MOD}) ELSE m0
        m2 == IF settings.zoom_mod = None THEN Insert(m1, {ZOOM_MOD}) ELSE m1
    IN  [ target              |-> target,
          rotation            |-> quaternion_id,
          distance            |-> from_f32(10, 1),
          distance_near_limit |-> from_f32(1, 10),
          distance_far_limit  |-> from_f32(1000, 1),
          pitch               |-> Zero,
          yaw                 |-> Zero,
          mode                |-> m2,
          settings            |-> settings ]

new(target, settings) ==
    LET m0 == ModeEmpty
        m1 == IF settings.orbit_mod = None THEN Insert(m0, {ORBIT_MOD}) ELSE m0
        m2 == IF settings.zoom_mod = None THEN Insert(m1, {ZOOM_MOD}) ELSE m1
        m3 == IF settings.pan_mod = None THEN Insert(m2, {PAN_MOD}) ELSE m2
    IN  [ target              |-> target,
          rotation            |-> quaternion_id,
          distance            |-> from_f32(10, 1),
          distance_near_limit |-> from_f32(1, 10),
          distance_far_limit  |-> from_f32(1000, 1),
          pitch               |-> Zero,
          yaw                 |-> Zero,
          mode                |-> m3,
          settings            |-> settings ]

rotation_from_yaw_and_pitch(yaw, pitch) ==
    quaternion_mul(axis_angle(<<Zero, One, Zero>>, yaw),
                   axis_angle(<<One, Zero, Zero>>, pitch))

init(self) ==
    [self EXCEPT !.rotation = rotation_from_yaw_and_pitch(self.yaw, self.pitch)]

\* The Camera value of the crate: Camera::new(position) and set_rotation.
Camera_new(position) == [position |-> position, rotation |-> quaternion_id]
set_rotation(camera, rotation) == [camera EXCEPT !.rotation = rotation]

\* Variant: pan is taken as active on its button flag alone.
is_pan_ButtonOnly(self) == Contains(self.mode, {PAN_BUTTON})

is_orbit(self) == Contains(self.mode, {ORBIT_BUTTON, ORBIT_MOD})
is_zoom(self)  == Contains(self.mode, {ZOOM_BUTTON, ZOOM_MOD})
is_pan(self)   == Contains(self.mode, {PAN_BUTTON, PAN_MOD})

\* Variant: the far-limit test is missing.
Zoom_NoFarClamp(self, dx0, dy0) ==
    LET new_dist == RAdd(self.distance,
                         RMul(RMul(dy0, self.settings.zoom_speed), self.distance))
    IN  [self EXCEPT !.distance =
            IF RLt(new_dist, self.distance_near_limit) THEN self.distance_near_limit
            ELSE new_dist]

\* Variant: the near-limit test is missing.
Zoom_NoNearClamp(self, dx0, dy0) ==
    LET new_dist == RAdd(self.distance,
                         RMul(RMul(dy0, self.settings.zoom_speed), self.distance))
    IN  [self EXCEPT !.distance =
            IF RGt(new_dist, self.distance_far_limit) THEN self.distance_far_limit
            ELSE new_dist]

\* The zoom branch of control_camera.
Zoom(self, dx0, dy0) ==
    LET new_dist == RAdd(self.distance,
                         RMul(RMul(dy0, self.settings.zoom_speed), self.distance))
    IN  [self EXCEPT !.distance =
            IF RGt(new_dist, self.distance_far_limit) THEN self.distance_far_limit
            ELSE IF RLt(new_dist, self.distance_near_limit) THEN self.distance_near_limit
            ELSE new_dist]

\* Variant: yaw is brought back into (-pi, pi], pi taken as 22/7.
Orbit_WrapYaw(self, dx0, dy0) ==
    LET dx    == RMul(dx0, self.settings.orbit_speed)
        dy    == RMul(dy0, self.settings.orbit_speed)
        sum   == RAdd(self.yaw, dx)
        yaw   == IF RGt(sum, Rat(22, 7)) THEN RAdd(sum, Rat(-44, 7))
                 ELSE IF RLe(sum, Rat(-22, 7)) THEN RAdd(sum, Rat(44, 7))
                 ELSE sum
        pitch == RAdd(self.pitch, RMul(dy, self.settings.pitch_speed))
    IN  [self EXCEPT !.yaw = yaw,
                     !.pitch = pitch,
                     !.rotation = rotation_from_yaw_and_pitch(yaw, pitch)]

\* Variant: rotation is recomputed from the yaw and pitch before the update.
Orbit_StaleRotation(self, dx0, dy0) ==
    LET dx    == RMul(dx0, self.settings.orbit_speed)
        dy    == RMul(dy0, self.settings.orbit_speed)
        yaw   == RAdd(self.yaw, dx)
        pitch == RAdd(self.pitch, RMul(dy, self.settings.pitch_speed))
    IN  [self EXCEPT !.yaw = yaw,
                     !.pitch = pitch,
                     !.rotation = rotation_from_yaw_and_pitch(self.yaw, self.pitch)]

\* The orbit branch of control_camera.
Orbit(self, dx0, dy0) ==
    LET dx    == RMul(dx0, self.settings.orbit_speed)
        dy    == RMul(dy0, self.settings.orbit_speed)
        yaw   == RAdd(self.yaw, dx)
        pitch == RAdd(self.pitch, RMul(dy, self.settings.pitch_speed))
    IN  [self EXCEPT !.yaw = yaw,
                     !.pitch = pitch,
                     !.rotation = rotation_from_yaw_and_pitch(yaw, pitch)]

(***************************************************************************)
(* The configurations and inputs explored.                                 *)
(***************************************************************************)
WithMods(st, mods) ==
    [st EXCEPT !.orbit_mod = mods[1], !.zoom_mod = mods[2], !.pan_mod = mods[3]]

WithButtons(st, b) == pan_button(zoom_button(orbit_button(st, b[1]), b[2]), b[3])

SettingsSet ==
    { Default,
      scroll_mode(Default, {}),
      scroll_mode(Default, {ORBIT_BUTTON}),
      scroll_mode(Default, {ZOOM_BUTTON, ZOOM_MOD}),
      zoom_speed(Default, from_f32(-1, 10)),
      WithMods(WithButtons(Default, <<"Left", "Right", "Middle">>), <<None, None, None>>),
      WithMods(Default, <<Some("LAlt"), None, Some("LShift")>>),
      scroll_mode(WithMods(Default, <<None, Some("LCtrl"), Some("LShift")>>),
                  {PAN_BUTTON, PAN_MOD}) }

Targets == { <<Zero, Zero, Zero>> }

\* The (dx, dy) pairs carried by scroll and relative-motion events: f64
\* values, one of them 1 + 2^-30, which is no f32, and NaN.
Deltas ==
    { <<F64(1073741825, -30), F64(1, 0)>>,
      <<F64(-2, 0), F64(1000, 0)>>,
      <<NaN64, NaN64>> }

NoButton == <<>>
NoDelta  == <<F64(0, 0), F64(0, 0)>>

Event(kind, x, d) ==
    [kind |-> kind, button |-> x, dx |-> d[1], dy |-> d[2]]

\* The inputs the settings bind to some action.
BoundInputs(st) ==
    {Mouse(st.orbit_button), Mouse(st.zoom_button), Mouse(st.pan_button)}
    \cup {Keyboard(o[1]) : o \in {st.orbit_mod, st.zoom_mod, st.pan_mod} \ {None}}

\* The values the owner of a controller writes to its public fields after
\* new(): <<distance, distance_near_limit, distance_far_limit, yaw>>.  The
\* first are the values of new().
OwnerWrites ==
    { <<FromInt(10), Rat(1, 10), FromInt(1000), Zero>>,
      <<FromInt(10), Rat(1, 10), FromInt(1000), One>>,
      <<FromInt(5000), FromInt(2), FromInt(50), Zero>>,
      <<FromInt(10), FromInt(5), FromInt(1), Zero>> }

\* The (dx, dy) pairs of direct control_camera calls: values of T.
CallDeltas ==
    { <<FromInt(1), Zero>>, <<FromInt(4), FromInt(-20)>>,
      <<FromInt(200), FromInt(1000)>>, <<Zero, NaN>> }

\* The inputs the owner presses and releases: those default() binds.
OwnerInputs == BoundInputs(Default)

\* The (dx, dy) pairs of the events sent by the owner.
OwnerEventDeltas == { <<F64(1, 0), F64(1, 0)>> }

(***************************************************************************)
(* The components of a rotation.  QuatOf computes them from the expression *)
(* as the crate does.  The rotations and distances the controllers         *)
(* explored here can hold are known ahead: those left by at most MaxMoves  *)
(* orbit or zoom steps and an init() on a controller as constructed or as  *)
(* written by its owner.  The components of these rotations, and the       *)
(* vectors the controller rotates under them, are computed once and kept   *)
(* in Known; any other is computed where it is used.                       *)
(***************************************************************************)
RECURSIVE QuatOf(_)
QuatOf(q) ==
    IF q = quaternion_id THEN <<One, Zero, Zero, Zero>>
    ELSE IF q = NaNQuat THEN <<NaN, NaN, NaN, NaN>>
    ELSE IF q[1] = "axis_angle" THEN QuatAxisAngle(q[2], q[3])
    ELSE QuatMul(QuatOf(q[2]), QuatOf(q[3]))

\* The (dx, dy) pairs control_camera is called with: those of the events,
\* converted to T, as mouse_scroll and mouse_relative pass them, and those
\* of direct calls.
ControlDeltas(events, calls) ==
    {<<from_f64(d[1]), from_f64(d[2])>> : d \in events}
    \cup {<<RNeg(from_f64(d[1])), from_f64(d[2])>> : d \in events}
    \cup calls

\* The controllers of S and those one orbit or zoom step away from them.
Moved(S, ds) ==
    S \cup {Orbit(c, d[1], d[2]) : c \in S, d \in ds}
      \cup {Zoom(c, d[1], d[2]) : c \in S, d \in ds}

\* The controllers at most n orbit or zoom steps away from those of S.
RECURSIVE MovedTimes(_, _, _)
MovedTimes(S, ds, n) ==
    IF n = 0 THEN S ELSE MovedTimes(Moved(S, ds), ds, n - 1)

\* The controllers of S, before and after init().
WithInit(S) == S \cup {init(c) : c \in S}

\* The controllers as constructed, and as written by their owner.
Starts == {new(t, st) : t \in Targets, st \in SettingsSet}

OwnerStarts ==
    {[new(t, Default) EXCEPT !.distance = w[1],
                             !.distance_near_limit = w[2],
                             !.distance_far_limit = w[3],
                             !.yaw = w[4]] : t \in Targets, w \in OwnerWrites}

\* The rotation and distance of the controllers the events of p[2] and the
\* calls of p[3] can leave of those of p[1].
Explored(p) ==
    {<<c.rotation, c.distance>> :
        c \in WithInit(MovedTimes(p[1], ControlDeltas(p[2], p[3]), MaxMoves))}

\* The vectors rotated: the right and up axes of the camera and its offset
\* [0, 0, distance], each with the rotation.
RotateArgs ==
    UNION {{<<k[1], <<One, Zero, Zero>>>>, <<k[1], <<Zero, One, Zero>>>>,
            <<k[1], <<Zero, Zero, k[2]>>>>} :
           k \in UNION {Explored(p) : p \in {<<Starts, Deltas, {}>>,
                                            <<OwnerStarts, OwnerEventDeltas,
                                              CallDeltas>>}}}

\* <<the components of the rotations of quats, the rotated vectors of args>>
RotatedWith(args, quats) ==
    <<quats, [k \in args |-> QuatRotate(quats[k[1]], k[2])]>>

\* The components and rotated vectors for the rotations and vectors of args.
KnownFor(args) == RotatedWith(args, [q \in {k[1] : k \in args} |-> QuatOf(q)])

Known == KnownFor(RotateArgs)

\* rotate_vector with the rotations and vectors of known computed ahead.
Rotate(known, q, v) ==
    IF <<q, v>> \in DOMAIN known[2] THEN known[2][<<q, v>>]
    ELSE QuatRotate(IF q \in DOMAIN known[1] THEN known[1][q] ELSE QuatOf(q), v)

\* quaternion::rotate_vector
rotate_vector(q, v) == Rotate(Known, q, v)

(***************************************************************************)
(* OrbitZoomCamera: camera and control_camera.                             *)
(***************************************************************************)
\* Variant: the camera is moved along its axis in proportion to dt.
camera_UsesDt(self, dt) ==
    LET target_to_camera ==
            rotate_vector(self.rotation,
                          <<Zero, Zero, RMul(self.distance, RAdd(One, from_f64(dt)))>>)
    IN  set_rotation(Camera_new(vec3_add(self.target, target_to_camera)),
                     self.rotation)

camera(self, dt) ==
    LET target_to_camera ==
            rotate_vector(self.rotation, <<Zero, Zero, self.distance>>)
    IN  set_rotation(Camera_new(vec3_add(self.target, target_to_camera)),
                     self.rotation)

\* Variant: the pan step does not scale with distance.
Pan_NoDistance(self, dx0, dy0) ==
    LET dx    == RMul(dx0, self.settings.pan_speed)
        dy    == RMul(dy0, self.settings.pan_speed)
        right == rotate_vector(self.rotation, <<One, Zero, Zero>>)
        up    == rotate_vector(self.rotation, <<Zero, One, Zero>>)
    IN  [self EXCEPT !.target =
            vec3_add(vec3_add(self.target, vec3_scale(up, dy)),
                     vec3_scale(right, dx))]

\* The pan branch of control_camera.
Pan(self, dx0, dy0) ==
    LET dx    == RMul(RMul(dx0, self.settings.pan_speed), self.distance)
        dy    == RMul(RMul(dy0, self.settings.pan_speed), self.distance)
        right == rotate_vector(self.rotation, <<One, Zero, Zero>>)
        up    == rotate_vector(self.rotation, <<Zero, One, Zero>>)
    IN  [self EXCEPT !.target =
            vec3_add(vec3_add(self.target, vec3_scale(up, dy)),
                     vec3_scale(right, dx))]

\* Variant: zoom is tested before pan.
control_camera_ZoomFirst(self, dx, dy) ==
    IF is_zoom(self) THEN Zoom(self, dx, dy)
    ELSE IF is_pan(self) THEN Pan(self, dx, dy)
    ELSE IF is_orbit(self) THEN Orbit(self, dx, dy)
    ELSE self

control_camera(self, dx, dy) ==
    IF is_pan(self) THEN Pan(self, dx, dy)
    ELSE IF is_zoom(self) THEN Zoom(self, dx, dy)
    ELSE IF is_orbit(self) THEN Orbit(self, dx, dy)
    ELSE self

\* Variant: any configured modifier that is held counts.
mod_key_pressed_Any(self) ==
    \/ self.settings.orbit_mod # None /\ Contains(self.mode, {ORBIT_MOD})
    \/ self.settings.zoom_mod # None /\ Contains(self.mode, {ZOOM_MOD})
    \/ self.settings.pan_mod # None /\ Contains(self.mode, {PAN_MOD})

mod_key_pressed(self) ==
    IF self.settings.orbit_mod # None THEN Contains(self.mode, {ORBIT_MOD})
    ELSE IF self.settings.zoom_mod # None THEN Contains(self.mode, {ZOOM_MOD})
    ELSE IF self.settings.pan_mod # None THEN Contains(self.mode, {PAN_MOD})
    ELSE FALSE

(***************************************************************************)
(* event: the four closures.                                               *)
(***************************************************************************)
\* The end of the mouse_scroll closure: the controller s2 that
\* control_camera left, with the flags of scroll_mode removed if restore holds.
Restored(s2, restore, flags) ==
    IF restore THEN [s2 EXCEPT !.mode = Remove(s2.mode, flags)] ELSE s2

\* Variant: the forced scroll_mode flags are never taken back.
mouse_scroll_NoRestore(self, dx0, dy0) ==
    LET dx      == from_f64(dx0)
        dy      == from_f64(dy0)
        forced  == ~mod_key_pressed(self)
        s1      == IF forced
                   THEN [self EXCEPT !.mode = Insert(self.mode, self.settings.scroll_mode)]
                   ELSE self
    IN  control_camera(s1, dx, dy)

mouse_scroll(self, dx0, dy0) ==
    LET dx      == from_f64(dx0)
        dy      == from_f64(dy0)
        forced  == ~mod_key_pressed(self)
        restore == forced /\ ~Contains(self.mode, self.settings.scroll_mode)
        s1      == IF forced
                   THEN [self EXCEPT !.mode = Insert(self.mode, self.settings.scroll_mode)]
                   ELSE self
    IN  Restored(control_camera(s1, dx, dy), restore, self.settings.scroll_mode)

\* Variant: the horizontal delta is passed on as it came.
mouse_relative_NoNegate(self, dx0, dy0) ==
    LET dx == from_f64(dx0)
        dy == from_f64(dy0)
    IN  control_camera(self, dx, dy)

mouse_relative(self, dx0, dy0) ==
    LET dx == from_f64(dx0)
        dy == from_f64(dy0)
    IN  control_camera(self, RNeg(dx), dy)

\* One `if` of the press / release closures.
OnButton(m, hit, flag, set) ==
    IF hit THEN (IF set THEN Insert(m, {flag}) ELSE Remove(m, {flag})) ELSE m

\* Variant: the six tests chained with else, so only the first match acts.
PressRelease_ElseIf(self, x, set) ==
    LET st == self.settings
        m  == self.mode
    IN  [self EXCEPT !.mode =
            IF x = Mouse(st.orbit_button) THEN OnButton(m, TRUE, ORBIT_BUTTON, set)
            ELSE IF x = Mouse(st.pan_button) THEN OnButton(m, TRUE, PAN_BUTTON, set)
            ELSE IF x = Mouse(st.zoom_button) THEN OnButton(m, TRUE, ZOOM_BUTTON, set)
            ELSE IF Some(x) = MapKeyboard(st.orbit_mod)
                 THEN OnButton(m, TRUE, ORBIT_MOD, set)
            ELSE IF Some(x) = MapKeyboard(st.pan_mod)
                 THEN OnButton(m, TRUE, PAN_MOD, set)
            ELSE IF Some(x) = MapKeyboard(st.zoom_mod)
                 THEN OnButton(m, TRUE, ZOOM_MOD, set)
            ELSE m]

\* Variant: a missing modifier matches every key.
PressRelease_AnyKey(self, x, set) ==
    LET st == self.settings
        key == x[1] = "Keyboard"
        m1 == OnButton(self.mode, x = Mouse(st.orbit_button), ORBIT_BUTTON, set)
        m2 == OnButton(m1, x = Mouse(st.pan_button), PAN_BUTTON, set)
        m3 == OnButton(m2, x = Mouse(st.zoom_button), ZOOM_BUTTON, set)
        m4 == OnButton(m3, key /\ (st.orbit_mod = None \/ Some(x) = MapKeyboard(st.orbit_mod)),
                       ORBIT_MOD, set)
        m5 == OnButton(m4, key /\ (st.pan_mod = None \/ Some(x) = MapKeyboard(st.pan_mod)),
                       PAN_MOD, set)
        m6 == OnButton(m5, key /\ (st.zoom_mod = None \/ Some(x) = MapKeyboard(st.zoom_mod)),
                       ZOOM_MOD, set)
    IN  [self EXCEPT !.mode = m6]

\* The six `if`s of a closure, in source order.
PressRelease(self, x, set) ==
    LET st == self.settings
        m1 == OnButton(self.mode, x = Mouse(st.orbit_button), ORBIT_BUTTON, set)
        m2 == OnButton(m1, x = Mouse(st.pan_button), PAN_BUTTON, set)
        m3 == OnButton(m2, x = Mouse(st.zoom_button), ZOOM_BUTTON, set)
        m4 == OnButton(m3, Some(x) = MapKeyboard(st.orbit_mod), ORBIT_MOD, set)
        m5 == OnButton(m4, Some(x) = MapKeyboard(st.pan_mod), PAN_MOD, set)
        m6 == OnButton(m5, Some(x) = MapKeyboard(st.zoom_mod), ZOOM_MOD, set)
    IN  [self EXCEPT !.mode = m6]

press(self, x)   == PressRelease(self, x, TRUE)
release(self, x) == PressRelease(self, x, FALSE)

(***************************************************************************)
(* The state machine: a controller built by new() and fed events.  held is *)
(* the set of bound inputs the user is holding down: pressed and not yet   *)
(* released.                                                               *)
(***************************************************************************)
Init ==
    /\ \E t \in Targets, st \in SettingsSet : cam = new(t, st)
    /\ lastEvent = Event("new", NoButton, NoDelta)
    /\ nMoves = 0
    /\ held = {}

Press(x) ==
    /\ cam' = press(cam, x)
    /\ lastEvent' = Event("press", x, NoDelta)
    /\ held' = held \cup ({x} \cap BoundInputs(cam.settings))
    /\ UNCHANGED nMoves

Release(x) ==
    /\ cam' = release(cam, x)
    /\ lastEvent' = Event("release", x, NoDelta)
    /\ held' = held \ {x}
    /\ UNCHANGED nMoves

MouseScroll(d) ==
    /\ nMoves < MaxMoves
    /\ cam' = mouse_scroll(cam, d[1], d[2])
    /\ lastEvent' = Event("mouse_scroll", NoButton, d)
    /\ nMoves' = nMoves + 1
    /\ UNCHANGED held

MouseRelative(d) ==
    /\ nMoves < MaxMoves
    /\ cam' = mouse_relative(cam, d[1], d[2])
    /\ lastEvent' = Event("mouse_relative", NoButton, d)
    /\ nMoves' = nMoves + 1
    /\ UNCHANGED held

\* init(&mut self): rotation is recomputed from yaw and pitch.
InitCall ==
    /\ cam' = init(cam)
    /\ lastEvent' = Event("init", NoButton, NoDelta)
    /\ UNCHANGED <<nMoves, held>>

Next ==
    \/ \E x \in Buttons : Press(x)
    \/ \E x \in Buttons : Release(x)
    \/ \E d \in Deltas : MouseScroll(d)
    \/ \E d \in Deltas : MouseRelative(d)
    \/ InitCall

Spec == Init /\ [][Next]_vars

(***************************************************************************)
(* A second state machine: the owner of the controller writes its public   *)
(* fields distance, distance_near_limit, distance_far_limit and yaw after  *)
(* new(), then presses and releases inputs, sends scroll and motion        *)
(* events, calls init() and control_camera directly and queries camera().  *)
(***************************************************************************)
InitOwner ==
    /\ cam \in OwnerStarts
    /\ lastEvent = Event("new", NoButton, NoDelta)
    /\ nMoves = 0
    /\ held = {}

ControlCamera(d) ==
    /\ nMoves < MaxMoves
    /\ cam' = control_camera(cam, d[1], d[2])
    /\ lastEvent' = Event("control_camera", NoButton, d)
    /\ nMoves' = nMoves + 1
    /\ UNCHANGED held

\* camera(&self, dt): the controller is only read; the Camera returned is
\* kept with the event.
CameraQuery(dt) ==
    /\ lastEvent' = [kind |-> "camera", button |-> NoButton,
                     dx |-> dt, dy |-> F64(0, 0),
                     result |-> camera(cam, dt)]
    /\ UNCHANGED <<cam, nMoves, held>>

NextOwner ==
    \/ \E x \in OwnerInputs : Press(x)
    \/ \E x \in OwnerInputs : Release(x)
    \/ \E d \in OwnerEventDeltas : MouseScroll(d)
    \/ \E d \in OwnerEventDeltas : MouseRelative(d)
    \/ InitCall
    \/ \E d \in CallDeltas : ControlCamera(d)
    \/ \E dt \in {F64(0, 0), F64(16, 0)} : CameraQuery(dt)

SpecOwner == InitOwner /\ [][NextOwner]_vars

(***************************************************************************)
(* Properties.                                                             *)
(***************************************************************************)
AllHeld(m, flags) == \A f \in flags : f \in m

\* The modifier key configured for the action of modifier flag f.
ModOf(st, f) ==
    IF f = ORBIT_MOD THEN st.orbit_mod
    ELSE IF f = ZOOM_MOD THEN st.zoom_mod
    ELSE st.pan_mod

Origin == <<Zero, Zero, Zero>>
Ten    == FromInt(10)

\* The deltas of event e, converted to T, are numbers.
NumberDeltas(e) == Finite(from_f64(e.dx)) /\ Finite(from_f64(e.dy))

\* v is a vector of numbers, not all of them zero.
HasMoved(v) == (\A i \in 1..3 : Finite(v[i])) /\ (\E i \in 1..3 : ~IsZero(v[i]))

Within(self) ==
    /\ RLe(self.distance_near_limit, self.distance)
    /\ RLe(self.distance, self.distance_far_limit)

\* C1: control_camera applies exactly one action by the priority
\* pan > zoom > orbit.  A relative-motion event is one control_camera call:
\* with pan active only target may change; otherwise with zoom active only
\* distance; otherwise with orbit active only yaw, pitch and rotation; with
\* nothing active nothing changes.  Mode, settings and limits never change.
C1_Priority ==
    [][lastEvent'.kind = "mouse_relative" =>
        LET pan   == AllHeld(cam.mode, {PAN_BUTTON, PAN_MOD})
            zoom  == AllHeld(cam.mode, {ZOOM_BUTTON, ZOOM_MOD})
            orbit == AllHeld(cam.mode, {ORBIT_BUTTON, ORBIT_MOD})
        IN  /\ cam'.mode = cam.mode
            /\ cam'.settings = cam.settings
            /\ cam'.distance_near_limit = cam.distance_near_limit
            /\ cam'.distance_far_limit = cam.distance_far_limit
            /\ pan => cam' = [cam EXCEPT !.target = cam'.target]
            /\ (~pan /\ zoom) => cam' = [cam EXCEPT !.distance = cam'.distance]
            /\ (~pan /\ ~zoom /\ orbit) =>
                   cam' = [cam EXCEPT !.yaw = cam'.yaw, !.pitch = cam'.pitch,
                                      !.rotation = cam'.rotation]
            /\ (~pan /\ ~zoom /\ ~orbit) => cam' = cam
    ]_vars

\* Pan, zoom and orbit all active, one motion event handled: the target has
\* moved while distance, yaw and pitch are as constructed.
C1_Witness ==
    /\ lastEvent.kind = "mouse_relative"
    /\ nMoves = 1
    /\ cam.mode = ButtonFlags \cup ModFlags
    /\ HasMoved(cam.target)
    /\ cam.distance = Ten /\ cam.yaw = Zero /\ cam.pitch = Zero
    /\ cam.rotation = quaternion_id

\* C2: a scroll event delivered while no mouse button is held leaves the
\* mode bitset as it was, whatever the configured scroll_mode.
C2_ScrollRestoresMode ==
    [][(lastEvent'.kind = "mouse_scroll" /\ cam.mode \cap ButtonFlags = {})
        => cam'.mode = cam.mode]_vars

\* C3: the modifier flag of an action without a configured modifier key is
\* set in every reachable state.
C3_AbsentModStaysSet ==
    \A f \in ModFlags : ModOf(cam.settings, f) = None => f \in cam.mode

\* C4 as stated: with the limits of new(), distance stays within
\* [distance_near_limit, distance_far_limit] in every reachable state,
\* whatever the deltas of the events.
C4_DistanceWithinLimits ==
    /\ cam.distance_near_limit = Rat(1, 10)
    /\ cam.distance_far_limit = FromInt(1000)
    /\ Within(cam)

\* C4 amended: the limits stay those of new(), and distance, within them
\* at construction, stays within them through every event whose deltas are
\* numbers; once a NaN delta has made distance NaN it stays NaN.
C4_WithinForNumberDeltas ==
    /\ cam.distance_near_limit = Rat(1, 10)
    /\ cam.distance_far_limit = FromInt(1000)
    /\ Within(cam)
    /\ [][/\ cam'.distance_near_limit = cam.distance_near_limit
          /\ cam'.distance_far_limit = cam.distance_far_limit
          /\ (Within(cam) /\ NumberDeltas(lastEvent')) => Within(cam')
          /\ IsNaN(cam.distance) => IsNaN(cam'.distance)
       ]_vars

\* A zoom with a negative zoom_speed has run into the near limit.
C4_Witness ==
    /\ RLt(cam.settings.zoom_speed, Zero)
    /\ lastEvent.kind \in {"mouse_scroll", "mouse_relative"}
    /\ lastEvent.dy = F64(1000, 0)
    /\ cam.distance = cam.distance_near_limit

\* C5: when no action has a modifier key, new() yields a mode of exactly
\* the three modifier flags, and before any scroll each action is active as
\* soon as its own button flag is set.
C5_Construction ==
    (nMoves = 0 /\ \A f \in ModFlags : ModOf(cam.settings, f) = None) =>
        /\ lastEvent.kind = "new" => cam.mode = ModFlags
        /\ is_orbit([cam EXCEPT !.mode = ModFlags \cup {ORBIT_BUTTON}])
        /\ is_zoom([cam EXCEPT !.mode = ModFlags \cup {ZOOM_BUTTON}])
        /\ is_pan([cam EXCEPT !.mode = ModFlags \cup {PAN_BUTTON}])
        /\ ORBIT_BUTTON \in cam.mode => is_orbit(cam)
        /\ ZOOM_BUTTON \in cam.mode => is_zoom(cam)
        /\ PAN_BUTTON \in cam.mode => is_pan(cam)

\* No modifier configured, the pan button alone pressed: pan is active.
C5_Witness ==
    /\ \A f \in ModFlags : ModOf(cam.settings, f) = None
    /\ nMoves = 0
    /\ lastEvent.kind = "press"
    /\ cam.mode = ModFlags \cup {PAN_BUTTON}
    /\ is_pan(cam) /\ ~is_orbit(cam) /\ ~is_zoom(cam)

\* The input a flag is bound to by the settings (None for the modifier
\* flag of an action without a modifier key).
BindingOf(st, f) ==
    IF f = ORBIT_BUTTON THEN Mouse(st.orbit_button)
    ELSE IF f = ZOOM_BUTTON THEN Mouse(st.zoom_button)
    ELSE IF f = PAN_BUTTON THEN Mouse(st.pan_button)
    ELSE IF ModOf(st, f) = None THEN None
    ELSE Keyboard(ModOf(st, f)[1])

\* The flags of the actions an input is bound to.
BoundFlags(st, x) == {f \in ButtonFlags \cup ModFlags : BindingOf(st, f) = x}

IsPressRelease(e) == e.kind \in {"press", "release"}

\* C6 as stated: a press (release) of a bound input sets (clears) one
\* single flag, the one of that input, and leaves the other five alone.
C6_SingleBit ==
    [][(IsPressRelease(lastEvent') /\ BoundFlags(cam.settings, lastEvent'.button) # {})
        => \E f \in BoundFlags(cam.settings, lastEvent'.button) :
              /\ Cardinality(BoundFlags(cam.settings, lastEvent'.button)) = 1
              /\ cam'.mode = IF lastEvent'.kind = "press"
                             THEN cam.mode \cup {f} ELSE cam.mode \ {f}
    ]_vars

\* C6 amended: a press (release) of a bound input sets (clears) exactly the
\* flags of the actions bound to that input, one flag per binding, and
\* changes nothing else.
C6_BoundBits ==
    [][(IsPressRelease(lastEvent') /\ BoundFlags(cam.settings, lastEvent'.button) # {})
        => LET flags == BoundFlags(cam.settings, lastEvent'.button)
           IN  cam' = [cam EXCEPT !.mode = IF lastEvent'.kind = "press"
                                           THEN cam.mode \cup flags
                                           ELSE cam.mode \ flags]
    ]_vars

\* The left button, bound to orbit and to pan, has been pressed: both of its
\* flags are set and the zoom button flag is not.
C6_Witness ==
    /\ lastEvent.kind = "press"
    /\ lastEvent.button = Mouse("Left")
    /\ BoundFlags(cam.settings, lastEvent.button) = {ORBIT_BUTTON, PAN_BUTTON}
    /\ cam.mode \cap ButtonFlags = {ORBIT_BUTTON, PAN_BUTTON}

\* C7: a press or release of an input bound to no action changes nothing in
\* the controller.
C7_UnboundIgnored ==
    [][(IsPressRelease(lastEvent') /\ BoundFlags(cam.settings, lastEvent'.button) = {})
        => cam' = cam]_vars

\* An unbound key has been released while a button and the pan modifier are
\* held and the camera has moved.
C7_Witness ==
    /\ lastEvent.kind = "release"
    /\ lastEvent.button = Keyboard("LCtrl")
    /\ BoundFlags(cam.settings, lastEvent.button) = {}
    /\ PAN_MOD \in cam.mode /\ cam.settings.pan_mod # None
    /\ ORBIT_BUTTON \in cam.mode
    /\ HasMoved(cam.target)

\* Some action's configured modifier key is held.
AnyModHeld(self) ==
    \E f \in ModFlags : ModOf(self.settings, f) # None /\ f \in self.mode

\* C8: a scroll event arriving while any configured modifier key is held is
\* an ordinary control_camera(dx, dy) in the mode as it stands.
C8_ModHeldScrollIsMotion ==
    [][(lastEvent'.kind = "mouse_scroll" /\ AnyModHeld(cam))
        => cam' = control_camera(cam, from_f64(lastEvent'.dx),
                                     from_f64(lastEvent'.dy))]_vars

\* The modifier flag mod_key_pressed consults: that of the first action, in
\* the order orbit, zoom, pan, with a configured modifier key.
FirstConfigured(st) ==
    IF st.orbit_mod # None THEN {ORBIT_MOD}
    ELSE IF st.zoom_mod # None THEN {ZOOM_MOD}
    ELSE IF st.pan_mod # None THEN {PAN_MOD}
    ELSE {}

FirstConfiguredHeld(self) == \E f \in FirstConfigured(self.settings) : f \in self.mode

\* The yaw, pitch, rotation, distance and target of a controller.
Pose(self) == <<self.target, self.distance, self.yaw, self.pitch, self.rotation>>

\* C9: the scroll handler treats a modifier as held exactly when the flag
\* of the first action with a configured modifier is set; otherwise (also
\* when no modifier is configured at all) it moves the camera as with the
\* scroll_mode flags added to the mode.
C9_FirstConfiguredOnly ==
    [][lastEvent'.kind = "mouse_scroll" =>
        LET modHeld == FirstConfiguredHeld(cam)
            seen == IF modHeld THEN cam
                    ELSE [cam EXCEPT !.mode = cam.mode \cup cam.settings.scroll_mode]
        IN  /\ mod_key_pressed(cam) = modHeld
            /\ Pose(cam') = Pose(control_camera(seen, from_f64(lastEvent'.dx),
                                                from_f64(lastEvent'.dy)))
    ]_vars

\* Orbit's modifier configured and not held, pan's modifier held, no zoom
\* button held: the one scroll event so far has zoomed all the same.
C9_Witness ==
    /\ lastEvent.kind = "mouse_scroll"
    /\ nMoves = 1
    /\ cam.settings.orbit_mod # None /\ ORBIT_MOD \notin cam.mode
    /\ cam.settings.pan_mod # None /\ PAN_MOD \in cam.mode
    /\ cam.settings.scroll_mode = {ZOOM_BUTTON}
    /\ ZOOM_BUTTON \notin cam.mode
    /\ cam.distance # Ten /\ Finite(cam.distance)

\* x restricted to [lo, hi], lo <= hi, as f32::clamp does it: NaN stays NaN.
Clamp(x, lo, hi) == IF RLt(x, lo) THEN lo ELSE IF RGt(x, hi) THEN hi ELSE x

\* C10: with the default settings, a scroll event (dx, dy) on a controller
\* as constructed, nothing held, zooms: distance becomes
\* clamp(distance + dy * zoom_speed * distance, near, far), the sum and the
\* products being those of T, and target, yaw, pitch and rotation stay.
C10_DefaultScrollZooms ==
    [][(lastEvent'.kind = "mouse_scroll"
        /\ \E t \in Targets : cam = new(t, Default))
        => cam' = [cam EXCEPT !.distance =
                      Clamp(RAdd(cam.distance,
                                 RMul(RMul(from_f64(lastEvent'.dy), Rat(1, 10)),
                                      cam.distance)),
                            cam.distance_near_limit, cam.distance_far_limit)]
    ]_vars

\* Default settings, nothing held, one scroll with dy = 1: distance is 11
\* and the rest is as constructed.
C10_Witness ==
    /\ lastEvent.kind = "mouse_scroll" /\ lastEvent.dy = F64(1, 0)
    /\ nMoves = 1
    /\ cam = [new(<<Zero, Zero, Zero>>, Default) EXCEPT !.distance = FromInt(11)]

\* C11: with the settings of default(), scrolling with nothing held orbits
\* the camera, as dragging with the orbit button does, and leaves distance
\* alone.
C11_DefaultScrollOrbits ==
    [][(lastEvent'.kind = "mouse_scroll"
        /\ \E t \in Targets : cam = new(t, Default))
        => /\ cam'.distance = cam.distance
           /\ Pose(cam') = Pose(control_camera(press(cam, Mouse(Default.orbit_button)),
                                               from_f64(lastEvent'.dx),
                                               from_f64(lastEvent'.dy)))
    ]_vars

\* C14: a relative-motion event (dx, dy) is control_camera(-dx, dy) and
\* leaves the mode alone.
C14_RelativeMotion ==
    [][lastEvent'.kind = "mouse_relative"
        => /\ cam' = control_camera(cam, RNeg(from_f64(lastEvent'.dx)),
                                    from_f64(lastEvent'.dy))
           /\ cam'.mode = cam.mode
    ]_vars

\* The orbit button held, one relative motion with dx = 1 + 2^-30, which
\* T takes as 1: yaw is -orbit_speed.
C14_Witness ==
    /\ lastEvent.kind = "mouse_relative" /\ lastEvent.dx = F64(1073741825, -30)
    /\ nMoves = 1
    /\ cam.settings.orbit_speed = Rat(1, 20)
    /\ ORBIT_BUTTON \in cam.mode
    /\ cam.yaw = Rat(-1, 20)

\* C15: in every state reached through events, rotation is
\* rotation_from_yaw_and_pitch of the current yaw and pitch.
C15_RotationFromYawPitch ==
    cam.rotation = rotation_from_yaw_and_pitch(cam.yaw, cam.pitch)

\* The camera has been orbited and then panned.
C15_Witness ==
    /\ ~IsZero(cam.yaw) /\ ~IsZero(cam.pitch)
    /\ Finite(cam.yaw) /\ Finite(cam.pitch)
    /\ cam.rotation # quaternion_id
    /\ HasMoved(cam.target)
    /\ lastEvent.kind = "mouse_relative"

MouseInputs == {Mouse(b) : b \in MouseButtons}

\* C19: a button flag is set exactly when the mouse button bound to its
\* action is held, and the modifier flag of a configured key exactly when
\* that key is held.
C19_ModeMirrorsHeld ==
    /\ \A f \in ButtonFlags : f \in cam.mode <=> BindingOf(cam.settings, f) \in held
    /\ \A f \in ModFlags : ModOf(cam.settings, f) # None =>
           (f \in cam.mode <=> BindingOf(cam.settings, f) \in held)

\* C20: a relative-motion event delivered while no mouse button is held
\* changes nothing, whatever scroll events came before.
C20_NoLeak ==
    [][(lastEvent'.kind = "mouse_relative" /\ held \cap MouseInputs = {})
        => cam' = cam]_vars

\* Default settings, nothing held: a scroll has zoomed, and the relative
\* motion after it was handled with no button flag set.
C20_Witness ==
    /\ lastEvent.kind = "mouse_relative"
    /\ nMoves = 2
    /\ held = {}
    /\ cam = [new(<<Zero, Zero, Zero>>, Default) EXCEPT !.distance = FromInt(11)]

\* The action control_camera resolves for a mode, by its flags.
Resolved(m) ==
    IF AllHeld(m, {PAN_BUTTON, PAN_MOD}) THEN "pan"
    ELSE IF AllHeld(m, {ZOOM_BUTTON, ZOOM_MOD}) THEN "zoom"
    ELSE IF AllHeld(m, {ORBIT_BUTTON, ORBIT_MOD}) THEN "orbit"
    ELSE "none"

\* C12: with the default settings, the left button held and no key held,
\* control_camera(dx, dy) adds orbit_speed * dx to yaw and
\* orbit_speed * pitch_speed * dy to pitch, sums and products being those
\* of T, and leaves distance and target alone: the shared left button does
\* not pan without the pan modifier.
C12_DefaultDragOrbits ==
    [][(lastEvent'.kind = "control_camera"
        /\ cam.settings = Default /\ held = {Mouse("Left")})
        => cam' = [cam EXCEPT
                     !.yaw = RAdd(cam.yaw, RMul(lastEvent'.dx, Rat(1, 20))),
                     !.pitch = RAdd(cam.pitch,
                                    RMul(RMul(lastEvent'.dy, Rat(1, 20)), Rat(1, 10))),
                     !.rotation = cam'.rotation]
    ]_vars

\* The scenario of the specification: left button held,
\* control_camera(1, 0) on a controller as constructed gives yaw 0.05.
C12_Witness ==
    /\ lastEvent.kind = "control_camera"
    /\ lastEvent.dx = One /\ lastEvent.dy = Zero
    /\ nMoves = 1
    /\ held = {Mouse("Left")}
    /\ cam = [new(<<Zero, Zero, Zero>>, Default) EXCEPT
                 !.mode = {ORBIT_MOD, ZOOM_MOD, ORBIT_BUTTON, PAN_BUTTON},
                 !.yaw = Rat(1, 20),
                 !.rotation = cam.rotation]
    /\ cam.rotation # quaternion_id

Two == <<0, 8388608, -22>>

\* p is a number of T of a magnitude above 2^-126, the smallest normal
\* number: neither a zero nor a subnormal number nor a product that was
\* rounded up to 2^-126.
AboveMinNormal(p) == Finite(p) /\ (p[3] > -149 \/ p[2] > 8388608)

\* p, the product x * y of T, is one that doubles exactly when a factor
\* doubles: its double is finite, and it is a zero because a factor is, or
\* it is above the smallest normal number.
RegularProduct(x, y, p) ==
    /\ Finite(RMul(Two, p))
    /\ IsZero(x) \/ IsZero(y) \/ AboveMinNormal(p)

\* The values of dx the two routes of C13 are compared for: 1, 200, 1/3,
\* -10 and -20.0001 (two steps of which cancel a yaw of 1, or nearly),
\* 2^-140 (dx * orbit_speed is subnormal), 2^127 (2 * dx overflows), 2^126
\* and 0.
OrbitProbes ==
    { One, FromInt(200), Rat(1, 3), FromInt(-10), Rat(-200001, 10000),
      <<0, 512, -149>>, <<0, 8388608, 104>>, <<0, 8388608, 103>>, Zero }

TwoRoutes(self, dx, p) ==
    /\ control_camera(control_camera(self, dx, Zero), dx, Zero).yaw
           = RAdd(RAdd(self.yaw, p), p)
    /\ (Finite(RMul(Two, dx)) /\ (IsZero(dx) \/ AboveMinNormal(p))) =>
           /\ RMul(RMul(Two, dx), self.settings.orbit_speed) = RMul(Two, p)
           /\ control_camera(self, RMul(Two, dx), Zero).yaw
                  = RAdd(self.yaw, RMul(Two, p))
           /\ IsZero(self.yaw) =>
                  control_camera(control_camera(self, dx, Zero), dx, Zero).yaw
                      = control_camera(self, RMul(Two, dx), Zero).yaw

C16_CameraPure ==
    [][lastEvent'.kind = "camera"
        => /\ cam' = cam
           /\ lastEvent'.result =
                 camera([new(<<Zero, Zero, Zero>>, Default) EXCEPT
                            !.target = cam.target,
                            !.rotation = cam.rotation,
                            !.distance = cam.distance], F64(0, 0))
           /\ lastEvent.kind = "camera" => lastEvent'.result = lastEvent.result
    ]_vars

\* camera() has been queried with a non-zero dt on a controller that was
\* orbited and panned.
C16_Witness ==
    /\ lastEvent.kind = "camera" /\ lastEvent.dx # F64(0, 0)
    /\ cam.rotation # quaternion_id /\ ~IsNaNQuat(cam.rotation)
    /\ HasMoved(cam.target)
    /\ lastEvent.result.rotation = cam.rotation
    /\ lastEvent.result.position # cam.target

\* The (dx, dy) pairs the pan steps are compared for: (1/3, -7/10),
\* (2^-140, 2^-140), whose steps are subnormal, (2^127, 1), whose right
\* step overflows at twice the distance, and (0, NaN).
PanProbes ==
    { <<Rat(1, 3), Rat(-7, 10)>>,
      <<<<0, 512, -149>>, <<0, 512, -149>>>>, <<<<0, 8388608, 104>>, One>>,
      <<Zero, NaN>> }

\* self at twice the distance
Doubled(self) == [self EXCEPT !.distance = RMul(Two, self.distance)]

\* Twice the vector v.
Twice(v) == vec3_scale(v, Two)

\* The displacement control_camera(dx, dy) applies to the target: the
\* vector it adds, which is the target it leaves when the target was the
\* origin.
Displacement(self, d) ==
    control_camera([self EXCEPT !.target = Origin], d[1], d[2]).target

\* C17 as stated: while pan is the resolved action, doubling distance
\* doubles each component of the displacement of the target for the same
\* (dx, dy), rotation and pan_speed.
C17_PanLinearInDistance ==
    Resolved(cam.mode) = "pan" =>
        \A d \in PanProbes :
            Displacement(Doubled(cam), d) = Twice(Displacement(cam, d))

\* The pan deltas of self for d: d[1] * pan_speed * distance and
\* d[2] * pan_speed * distance, the products of T taken from the left.
Scaled(self, d) ==
    <<RMul(RMul(d[1], self.settings.pan_speed), self.distance),
      RMul(RMul(d[2], self.settings.pan_speed), self.distance)>>

\* The up and right axes of the camera of self.
Axes(self) ==
    <<rotate_vector(self.rotation, <<Zero, One, Zero>>),
      rotate_vector(self.rotation, <<One, Zero, Zero>>)>>

\* The two vectors a pan adds to the target, for the axes ax and the scaled
\* deltas s: the up axis times s[2] and the right axis times s[1].
Steps(ax, s) == <<vec3_scale(ax[1], s[2]), vec3_scale(ax[2], s[1])>>

\* Every product of a pan of self by d doubles exactly with distance:
\* 2 * distance is finite, and the scaled deltas s and the components of
\* the two steps st are products as RegularProduct has them.
Scalable(self, d, ax, s, st) ==
    /\ Finite(RMul(Two, self.distance))
    /\ \A i \in 1..2 :
           RegularProduct(RMul(d[i], self.settings.pan_speed), self.distance, s[i])
    /\ \A i \in 1..3 :
           /\ RegularProduct(ax[1][i], s[2], st[1][i])
           /\ RegularProduct(ax[2][i], s[1], st[2][i])

\* What a pan of self by d does, against the steps st of self and the
\* steps st2 of self at twice the distance: the target left is the sum of T
\* of the target, the up step and the right step, in that order; when the
\* pan is scalable both steps at twice the distance are twice the steps,
\* and so is the displacement.
PanDoubles(self, d, st, st2, scalable) ==
    /\ control_camera(self, d[1], d[2]).target
           = vec3_add(vec3_add(self.target, st[1]), st[2])
    /\ control_camera(Doubled(self), d[1], d[2]).target
           = vec3_add(vec3_add(self.target, st2[1]), st2[2])
    /\ scalable =>
           /\ st2 = <<Twice(st[1]), Twice(st[2])>>
           /\ Displacement(Doubled(self), d) = Twice(Displacement(self, d))

\* PanDoubles for the axes ax of self, its scaled deltas s and steps st.
PanChecked(self, d, ax, s, st) ==
    PanDoubles(self, d, st, Steps(ax, Scaled(Doubled(self), d)),
               Scalable(self, d, ax, s, st))

\* PanDoubles for every pair of PanProbes, ax being the axes of self.
PanProbed(self, ax) ==
    \A d \in PanProbes :
        PanChecked(self, d, ax, Scaled(self, d), Steps(ax, Scaled(self, d)))

\* C17 amended: while pan is the resolved action, control_camera(dx, dy)
\* adds to the target two vectors, the camera's up axis times
\* dy * pan_speed * distance and its right axis times
\* dx * pan_speed * distance, each sum rounded to T.  Doubling distance
\* doubles every component of both vectors, and of the displacement of a
\* target at the origin, provided 2 * distance is finite and no product
\* involved is subnormal or overflows when doubled.  (A camera() query
\* leaves the controller as it is: the states after one hold no controller
\* that the state before it does not.)
C17_PanStepsDouble ==
    (Resolved(cam.mode) = "pan" /\ lastEvent.kind # "camera") =>
        PanProbed(cam, Axes(cam))

\* The pair (1/3, -7/10).
Slanted == <<Rat(1, 3), Rat(-7, 10)>>

\* Pan is active on a rotated camera whose target the last call has moved,
\* and a pan by (1/3, -7/10) is scalable there and moves the target along
\* each axis.
C17_Witness ==
    /\ Resolved(cam.mode) = "pan"
    /\ lastEvent.kind = "control_camera"
    /\ cam.rotation # quaternion_id /\ ~IsNaNQuat(cam.rotation)
    /\ HasMoved(cam.target)
    /\ Scalable(cam, Slanted, Axes(cam), Scaled(cam, Slanted),
                Steps(Axes(cam), Scaled(cam, Slanted)))
    /\ \A i \in 1..3 : ~IsZero(Displacement(cam, Slanted)[i])
    /\ Displacement(Doubled(cam), Slanted) # Displacement(cam, Slanted)

\* C18 as stated: whatever limits and distance the owner has assigned and
\* whatever dy is, a zoom step leaves distance within the limits.
C18_ZoomWithinAnyLimits ==
    [][(lastEvent'.kind = "control_camera" /\ Resolved(cam.mode) = "zoom")
        => Within(cam')]_vars

\* C18 amended: when the assigned limits satisfy near <= far and distance
\* and dy are numbers, a zoom step leaves distance within the limits,
\* wherever distance was before; pan and orbit steps leave distance as it
\* is.
C18_ZoomWithinOrderedLimits ==
    [][lastEvent'.kind = "control_camera"
        => /\ (Resolved(cam.mode) = "zoom"
               /\ RLe(cam.distance_near_limit, cam.distance_far_limit)
               /\ Finite(cam.distance) /\ Finite(lastEvent'.dy))
                  => Within(cam')
           /\ Resolved(cam.mode) # "zoom" => cam'.distance = cam.distance
    ]_vars

\* The owner set distance 5000 with limits 2 and 50; one zoom step with
\* dy = 0 has brought distance to the far limit.
C18_Witness ==
    /\ lastEvent.kind = "control_camera" /\ lastEvent.dy = Zero
    /\ nMoves = 1
    /\ Resolved(cam.mode) = "zoom"
    /\ cam.distance_near_limit = FromInt(2)
    /\ cam.distance_far_limit = FromInt(50)
    /\ cam.distance = FromInt(50)

=============================================================================
